---- MODULE Spec2Model ----
(***************************************************************************)
(* Model of package proc (src/meminfo.go): the MemInfo snapshot and        *)
(* MemInfo.FormatMemInfo / MemInfo.formatMemInfo, which fill it from the   *)
(* lines of a procfs-style file.                                           *)
(*                                                                         *)
(* Go strings are modelled as sequences of one-character strings, so that  *)
(* strings.HasPrefix, strings.Split and the trimming of a value are        *)
(* computed character by character.  A Go string field that was never      *)
(* assigned holds the zero value "", here the empty sequence <<>>.         *)
(***************************************************************************)
EXTENDS Naturals, Sequences, FiniteSets

VARIABLES
    m,         \* the receiver *MemInfo: field name -> string
    file,      \* content of the file at filePath, as ReadFileByLine would return it
    mEntry,    \* value of m when the latest FormatMemInfo call was entered
    outcome,   \* how the latest call on the current file content ended:
               \* "none" (not called yet), "returned", "readError", "panicked"
    logged     \* TRUE once log.Self.Error("read mem info error") has been called

vars == <<m, file, mEntry, outcome, logged>>

\* Longest source the environment writes line by line.
MaxLines == 2

----------------------------------------------------------------------------
\* The MemInfo struct: every field is a Go string.
Fields ==
    { "MemTotal", "MemFree", "MemAvailable", "Buffers",
      "Cached", "SwapCached", "Active", "Inactive",
      "ActiveAnon", "InactiveAnon", "ActiveFile", "InactiveFile",
      "Unevictable", "MLocked", "SwapTotal", "SwapFree",
      "Dirty", "WriteBack", "AnonPages", "Mapped",
      "Shmem", "Slab", "SReclaimable", "SUnreclaim",
      "KernelStack", "PageTables", "NFSUnstable", "Bounce",
      "WriteBackTmp", "CommitLimit", "CommittedAS", "VMAllocTotal",
      "VMAllocUsed", "VMAllocChunk", "HardwareCorrupted", "AnonHugePages",
      "CmaTotal", "CmaFree", "HugePagesTotal", "HugePagesFree",
      "HugePagesRsvd", "HugePagesSurp", "HugePageSize", "DirectMap4k",
      "DirectMap2M", "DirectMap1G" }

\* A freshly constructed MemInfo: every field holds the zero value "".
EmptyMemInfo == [f \in Fields |-> <<>>]

\* The else-if chain of formatMemInfo, in the order the code tests it.
Chain ==
    << [key |-> <<"M", "e", "m", "T", "o", "t", "a", "l">>, field |-> "MemTotal"],
       [key |-> <<"M", "e", "m", "F", "r", "e", "e">>, field |-> "MemFree"],
       [key |-> <<"M", "e", "m", "A", "v", "a", "i", "l", "a", "b", "l", "e">>, field |-> "MemAvailable"],
       [key |-> <<"B", "u", "f", "f", "e", "r", "s">>, field |-> "Buffers"],
       [key |-> <<"C", "a", "c", "h", "e", "d">>, field |-> "Cached"],
       [key |-> <<"S", "w", "a", "p", "C", "a", "c", "h", "e", "d">>, field |-> "SwapCached"],
       [key |-> <<"A", "c", "t", "i", "v", "e">>, field |-> "Active"],
       [key |-> <<"I", "n", "a", "c", "t", "i", "v", "e">>, field |-> "Inactive"],
       [key |-> <<"A", "c", "t", "i", "v", "e", "(", "a", "n", "o", "n", ")">>, field |-> "ActiveAnon"],
       [key |-> <<"I", "n", "a", "c", "t", "i", "v", "e", "(", "a", "n", "o", "n", ")">>, field |-> "InactiveAnon"],
       [key |-> <<"A", "c", "t", "i", "v", "e", "(", "f", "i", "l", "e", ")">>, field |-> "ActiveFile"],
       [key |-> <<"I", "n", "a", "c", "t", "i", "v", "e", "(", "f", "i", "l", "e", ")">>, field |-> "InactiveFile"],
       [key |-> <<"U", "n", "e", "v", "i", "c", "t", "a", "b", "l", "e">>, field |-> "Unevictable"],
       [key |-> <<"M", "l", "o", "c", "k", "e", "d">>, field |-> "MLocked"],
       [key |-> <<"S", "w", "a", "p", "T", "o", "t", "a", "l">>, field |-> "SwapTotal"],
       [key |-> <<"S", "w", "a", "p", "F", "r", "e", "e">>, field |-> "SwapFree"],
       [key |-> <<"D", "i", "r", "t", "y">>, field |-> "Dirty"],
       [key |-> <<"W", "r", "i", "t", "e", "b", "a", "c", "k">>, field |-> "WriteBack"],
       [key |-> <<"A", "n", "o", "n", "P", "a", "g", "e", "s">>, field |-> "AnonPages"],
       [key |-> <<"M", "a", "p", "p", "e", "d">>, field |-> "Mapped"],
       [key |-> <<"S", "h", "m", "e", "m">>, field |-> "Shmem"],
       [key |-> <<"S", "l", "a", "b">>, field |-> "Slab"],
       [key |-> <<"S", "R", "e", "c", "l", "a", "i", "m", "a", "b", "l", "e">>, field |-> "SReclaimable"],
       [key |-> <<"S", "U", "n", "r", "e", "c", "l", "a", "i", "m">>, field |-> "SUnreclaim"],
       [key |-> <<"K", "e", "r", "n", "e", "l", "S", "t", "a", "c", "k">>, field |-> "KernelStack"],
       [key |-> <<"P", "a", "g", "e", "T", "a", "b", "l", "e", "s">>, field |-> "PageTables"],
       [key |-> <<"N", "F", "S", "_", "U", "n", "s", "t", "a", "b", "l", "e">>, field |-> "NFSUnstable"],
       [key |-> <<"B", "o", "u", "n", "c", "e">>, field |-> "Bounce"],
       [key |-> <<"W", "r", "i", "t", "e", "b", "a", "c", "k", "T", "m", "p">>, field |-> "WriteBackTmp"],
       [key |-> <<"C", "o", "m", "m", "i", "t", "L", "i", "m", "i", "t">>, field |-> "CommitLimit"],
       [key |-> <<"C", "o", "m", "m", "i", "t", "t", "e", "d", "_", "A", "S">>, field |-> "CommittedAS"],
       [key |-> <<"V", "m", "a", "l", "l", "o", "c", "T", "o", "t", "a", "l">>, field |-> "VMAllocTotal"],
       [key |-> <<"V", "m", "a", "l", "l", "o", "c", "U", "s", "e", "d">>, field |-> "VMAllocUsed"],
       [key |-> <<"V", "m", "a", "l", "l", "o", "c", "C", "h", "u", "n", "k">>, field |-> "VMAllocChunk"],
       [key |-> <<"H", "a", "r", "d", "w", "a", "r", "e", "C", "o", "r", "r", "u", "p", "t", "e", "d">>, field |-> "HardwareCorrupted"],
       [key |-> <<"A", "n", "o", "n", "H", "u", "g", "e", "P", "a", "g", "e", "s">>, field |-> "AnonHugePages"],
       [key |-> <<"C", "m", "a", "T", "o", "t", "a", "l">>, field |-> "CmaTotal"],
       [key |-> <<"C", "m", "a", "F", "r", "e", "e">>, field |-> "CmaFree"],
       [key |-> <<"H", "u", "g", "e", "P", "a", "g", "e", "s", "_", "T", "o", "t", "a", "l">>, field |-> "HugePagesTotal"],
       [key |-> <<"H", "u", "g", "e", "P", "a", "g", "e", "s", "_", "F", "r", "e", "e">>, field |-> "HugePagesFree"],
       [key |-> <<"H", "u", "g", "e", "P", "a", "g", "e", "s", "_", "R", "s", "v", "d">>, field |-> "HugePagesRsvd"],
       [key |-> <<"H", "u", "g", "e", "P", "a", "g", "e", "s", "_", "S", "u", "r", "p">>, field |-> "HugePagesSurp"],
       [key |-> <<"H", "u", "g", "e", "p", "a", "g", "e", "s", "i", "z", "e">>, field |-> "HugePageSize"],
       [key |-> <<"D", "i", "r", "e", "c", "t", "M", "a", "p", "4", "k">>, field |-> "DirectMap4k"],
       [key |-> <<"D", "i", "r", "e", "c", "t", "M", "a", "p", "2", "M">>, field |-> "DirectMap2M"],
       [key |-> <<"D", "i", "r", "e", "c", "t", "M", "a", "p", "1", "G">>, field |-> "DirectMap1G"] >>

----------------------------------------------------------------------------
\* strings.HasPrefix(s, prefix)
HasPrefix(s, prefix) ==
    /\ Len(s) >= Len(prefix)
    /\ SubSeq(s, 1, Len(prefix)) = prefix

\* Position of the first sep in s, 0 when there is none.
IndexOf(s, sep) ==
    IF \E i \in 1..Len(s) : s[i] = sep
    THEN CHOOSE i \in 1..Len(s) : s[i] = sep /\ \A j \in 1..(i - 1) : s[j] # sep
    ELSE 0

RECURSIVE Split(_, _)
\* strings.Split(s, sep) for a one-character sep: s cut at EVERY sep.
Split(s, sep) ==
    LET i == IndexOf(s, sep) IN
    IF i = 0 THEN <<s>>
    ELSE <<SubSeq(s, 1, i - 1)>> \o Split(SubSeq(s, i + 1, Len(s)), sep)

RECURSIVE TrimLeft(_)
TrimLeft(s) == IF s # <<>> /\ Head(s) = " " THEN TrimLeft(Tail(s)) ELSE s

RECURSIVE TrimRight(_)
TrimRight(s) ==
    IF s # <<>> /\ s[Len(s)] = " " THEN TrimRight(SubSeq(s, 1, Len(s) - 1)) ELSE s

RECURSIVE Squeeze(_)
\* Runs of spaces inside s reduced to one space.
Squeeze(s) ==
    IF Len(s) < 2 THEN s
    ELSE IF s[1] = " " /\ s[2] = " " THEN Squeeze(Tail(s))
    ELSE <<s[1]>> \o Squeeze(Tail(s))

\* str.Trim of github.com/ennoo/rivet/utils/string: leading and trailing
\* whitespace removed, inner runs reduced to single separators.
Trim(s) == Squeeze(TrimLeft(TrimRight(s)))

\* Index of the first branch of the chain whose key lineStr starts with, 0 if none.
FirstMatch(lineStr) ==
    LET hits == {i \in 1..Len(Chain) : HasPrefix(lineStr, Chain[i].key)} IN
    IF hits = {} THEN 0
    ELSE CHOOSE i \in hits : \A j \in hits : i <= j

\* formatMemInfo with its last "else if" written as a plain "else".
formatMemInfoElse(mi, lineStr) ==
    LET i     == FirstMatch(lineStr)
        parts == Split(lineStr, ":")
        fld   == IF i = 0 THEN Chain[Len(Chain)].field ELSE Chain[i].field
    IN  IF Len(parts) < 2
        THEN [m |-> mi, panic |-> TRUE]
        ELSE [m |-> [mi EXCEPT ![fld] = Trim(parts[2])], panic |-> FALSE]

\* MemInfo.formatMemInfo(lineStr) on receiver value mi.  The first branch
\* whose key prefixes the line assigns Trim(Split(lineStr, ":")[1]) to its
\* field; indexing [1] of a one-element slice is a run-time panic.
formatMemInfo(mi, lineStr) ==
    LET i     == FirstMatch(lineStr)
        parts == Split(lineStr, ":")
    IN  IF i = 0
        THEN [m |-> mi, panic |-> FALSE]
        ELSE IF Len(parts) < 2
             THEN [m |-> mi, panic |-> TRUE]
             ELSE [m |-> [mi EXCEPT ![Chain[i].field] = Trim(parts[2])],
                   panic |-> FALSE]

RECURSIVE FormatLines(_, _, _)
\* The loop "for index := range data { m.formatMemInfo(data[index]) }" from
\* position index on; a panic ends it with the fields set so far.
FormatLines(mi, data, index) ==
    IF index > Len(data)
    THEN [m |-> mi, panic |-> FALSE]
    ELSE LET r == formatMemInfo(mi, data[index]) IN
         IF r.panic THEN r ELSE FormatLines(r.m, data, index + 1)

----------------------------------------------------------------------------
\* Lines the environment puts into the file.
\* Active: 100 kB
LineActive100 == <<"A", "c", "t", "i", "v", "e", ":", " ", "1", "0", "0", " ", "k", "B">>
\* Active: 200 kB
LineActive200 == <<"A", "c", "t", "i", "v", "e", ":", " ", "2", "0", "0", " ", "k", "B">>
\* Active(anon): 50 kB
LineActiveAnon50 == <<"A", "c", "t", "i", "v", "e", "(", "a", "n", "o", "n", ")", ":", " ", "5", "0", " ", "k", "B">>
\* Inactive(file): 6 kB
LineInactiveFile6 == <<"I", "n", "a", "c", "t", "i", "v", "e", "(", "f", "i", "l", "e", ")", ":", " ", "6", " ", "k", "B">>
\* WritebackTmp: 4 kB
LineWritebackTmp4 == <<"W", "r", "i", "t", "e", "b", "a", "c", "k", "T", "m", "p", ":", " ", "4", " ", "k", "B">>
\* MemTotal
LineMemTotalBare == <<"M", "e", "m", "T", "o", "t", "a", "l">>
\* no delimiter
LineNoDelimiter == <<"n", "o", " ", "d", "e", "l", "i", "m", "i", "t", "e", "r">>
\* FutureKernelField: 1 kB
LineFutureKernelField == <<"F", "u", "t", "u", "r", "e", "K", "e", "r", "n", "e", "l", "F", "i", "e", "l", "d", ":", " ", "1", " ", "k", "B">>
\* HugePages_Total:
LineHugePagesTotalEmpty == <<"H", "u", "g", "e", "P", "a", "g", "e", "s", "_", "T", "o", "t", "a", "l", ":">>
\* MemTotal: 12:34
LineMemTotalClock == <<"M", "e", "m", "T", "o", "t", "a", "l", ":", " ", "1", "2", ":", "3", "4">>
\* MemTotal: 3965536 kB
LineMemTotal == <<"M", "e", "m", "T", "o", "t", "a", "l", ":", " ", "3", "9", "6", "5", "5", "3", "6", " ", "k", "B">>
\* MemFree: 100000 kB
LineMemFree == <<"M", "e", "m", "F", "r", "e", "e", ":", " ", "1", "0", "0", "0", "0", "0", " ", "k", "B">>
\* Slab: 30000 kB
LineSlab == <<"S", "l", "a", "b", ":", " ", "3", "0", "0", "0", "0", " ", "k", "B">>

Lines ==
    { LineActive100,
      LineActive200,
      LineActiveAnon50,
      LineInactiveFile6,
      LineWritebackTmp4,
      LineMemTotalBare,
      LineNoDelimiter,
      LineFutureKernelField,
      LineHugePagesTotalEmpty,
      LineMemTotalClock }

\* A five-line /proc/meminfo excerpt.
ProcMeminfoSample ==
    <<LineMemTotal, LineMemFree, LineActive200, LineActiveAnon50, LineSlab>>

----------------------------------------------------------------------------
Init ==
    /\ m = EmptyMemInfo
    /\ file = <<>>
    /\ mEntry = EmptyMemInfo
    /\ outcome = "none"
    /\ logged = FALSE

\* The kernel regenerates the file: one more line ...
AppendLine(l) ==
    /\ outcome # "panicked"
    /\ Len(file) < MaxLines
    /\ file' = Append(file, l)
    /\ outcome' = "none"
    /\ mEntry' = m
    /\ UNCHANGED <<m, logged>>

\* ... an empty file ...
Truncate ==
    /\ outcome # "panicked"
    /\ file' = <<>>
    /\ outcome' = "none"
    /\ mEntry' = m
    /\ UNCHANGED <<m, logged>>

\* ... or the five-line excerpt.
WriteSample ==
    /\ outcome # "panicked"
    /\ file' = ProcMeminfoSample
    /\ outcome' = "none"
    /\ mEntry' = m
    /\ UNCHANGED <<m, logged>>

\* m.FormatMemInfo(filePath).  file.ReadFileByLine either fails (err) or
\* returns the lines of the file.  The function has no result: the caller
\* gets control back (or the panic) and the receiver.  An unrecovered panic
\* ends the process, so nothing is enabled after it.
FormatMemInfo ==
    /\ outcome # "panicked"
    /\ mEntry' = m
    /\ UNCHANGED file
    /\ \E err \in BOOLEAN :
          IF err
          THEN /\ logged' = TRUE
               /\ m' = m
               /\ outcome' = "readError"
          ELSE LET r == FormatLines(m, file, 1) IN
               /\ m' = r.m
               /\ outcome' = IF r.panic THEN "panicked" ELSE "returned"
               /\ UNCHANGED logged

Next ==
    \/ \E l \in Lines : AppendLine(l)
    \/ Truncate
    \/ WriteSample
    \/ FormatMemInfo

Spec == Init /\ [][Next]_vars

----------------------------------------------------------------------------
\* Vocabulary of the properties.

\* "100 kB"
Val100kB == <<"1", "0", "0", " ", "k", "B">>
\* "200 kB"
Val200kB == <<"2", "0", "0", " ", "k", "B">>
\* "50 kB"
Val50kB == <<"5", "0", " ", "k", "B">>
\* "3965536 kB"
Val3965536kB == <<"3", "9", "6", "5", "5", "3", "6", " ", "k", "B">>
\* "100000 kB"
Val100000kB == <<"1", "0", "0", "0", "0", "0", " ", "k", "B">>
\* "30000 kB"
Val30000kB == <<"3", "0", "0", "0", "0", " ", "k", "B">>

HasDelimiter(line) == IndexOf(line, ":") # 0

\* The key of a line: its text before the first ":" (the whole line if none).
KeyOf(line) ==
    IF HasDelimiter(line) THEN SubSeq(line, 1, IndexOf(line, ":") - 1) ELSE line

\* The text of a line after its first ":".
AfterFirstDelimiter(line) == SubSeq(line, IndexOf(line, ":") + 1, Len(line))

\* The value formatMemInfo stores for a line that has a ":".
StoredValue(line) == Trim(Split(line, ":")[2])

MappingKeys == {Chain[i].key : i \in 1..Len(Chain)}

FieldOfKey(k) == Chain[CHOOSE i \in 1..Len(Chain) : Chain[i].key = k].field

\* A line whose key starts with no mapping key.
Unrecognized(line) == \A k \in MappingKeys : ~HasPrefix(KeyOf(line), k)

\* Index of the longest mapping key the line starts with, 0 if none.
LongestMatch(line) ==
    LET hits == {i \in 1..Len(Chain) : HasPrefix(line, Chain[i].key)} IN
    IF hits = {} THEN 0
    ELSE CHOOSE i \in hits : \A j \in hits : Len(Chain[j].key) <= Len(Chain[i].key)

\* One line resolved longest-key-first; a line without ":" or key is skipped.
ResolveLine(mi, line) ==
    IF LongestMatch(line) = 0 \/ ~HasDelimiter(line) THEN mi
    ELSE [mi EXCEPT ![Chain[LongestMatch(line)].field] = StoredValue(line)]

RECURSIVE ResolveLines(_, _)
ResolveLines(mi, data) ==
    IF data = <<>> THEN mi ELSE ResolveLines(ResolveLine(mi, Head(data)), Tail(data))

RemoveAt(s, i) == SubSeq(s, 1, i - 1) \o SubSeq(s, i + 1, Len(s))

\* The call on the current file content has ended, normally or by a panic.
CallEnded == outcome \in {"returned", "panicked"}

----------------------------------------------------------------------------
\* C1: for the two lines "Active: 100 kB" and "Active(anon): 50 kB", in either
\* order, extraction into an empty snapshot ends with Active = "100 kB" and
\* ActiveAnon = "50 kB".
C1_PrefixDisambiguation ==
    ( /\ outcome = "returned"
      /\ mEntry = EmptyMemInfo
      /\ file \in { <<LineActive100, LineActiveAnon50>>,
                    <<LineActiveAnon50, LineActive100>> } )
    => (m.Active = Val100kB /\ m.ActiveAnon = Val50kB)

\* C2: every line sets the field mapped to the LONGEST mapping key the line
\* starts with and leaves every other field (the shorter key's too) unchanged:
\* a returned call leaves the snapshot that longest-key-first resolution of
\* the lines gives.
C2_LongestKeyFirst ==
    outcome = "returned" => m = ResolveLines(mEntry, file)

\* C3: a line without ":" is skipped without failing the extraction, whatever
\* its text: the call returns, and the snapshot is the one the lines that do
\* have a ":" produce.
C3_NoDelimiterSkipped ==
    CallEnded =>
        /\ outcome = "returned"
        /\ m = FormatLines(mEntry, SelectSeq(file, HasDelimiter), 1).m

\* C4: a call whose line source failed sets no field, and what it hands back
\* to the caller (the receiver; FormatMemInfo has no result) differs from what
\* a successful call hands back, so the caller can tell the two apart.
C4_SourceUnavailable ==
    outcome = "readError" =>
        /\ m = mEntry
        /\ \A d \in {<<>>} \cup {<<l>> : l \in Lines} :
              FormatLines(mEntry, d, 1) # [m |-> m, panic |-> FALSE]

\* C5: a line whose key starts with no mapping key changes no field and
\* raises no error, wherever it stands: processing it is a no-op, and the
\* call ends exactly as it does on the same source with that line removed.
C5_UnknownKeyIgnored ==
    CallEnded =>
        \A i \in 1..Len(file) :
            Unrecognized(file[i]) =>
                /\ formatMemInfo(m, file[i]) = [m |-> m, panic |-> FALSE]
                /\ formatMemInfo(mEntry, file[i]) = [m |-> mEntry, panic |-> FALSE]
                /\ FormatLines(mEntry, RemoveAt(file, i), 1)
                      = [m |-> m, panic |-> outcome = "panicked"]

\* A source with an unrecognized line followed by a recognized one has been
\* extracted, and the recognized line's field is set.
C5_Witness ==
    /\ outcome = "returned"
    /\ file = <<LineFutureKernelField, LineActive100>>
    /\ m.Active = Val100kB

\* C6: a field explicitly set to an empty value ("HugePages_Total:") is
\* distinguishable from a field whose key never appeared: the snapshot
\* differs from the one extracted from the same source without that line.
C6_AbsentVsEmpty ==
    (outcome = "returned" /\ mEntry = EmptyMemInfo) =>
        \A i \in 1..Len(file) :
            file[i] = LineHugePagesTotalEmpty =>
                m # FormatLines(EmptyMemInfo, RemoveAt(file, i), 1).m

\* C7: when the same key occurs on two or more lines of one pass, the key's
\* field holds, after the pass, the value of the last such line.
C7_LastWriteWins ==
    outcome = "returned" =>
        \A j \in 1..Len(file) :
            ( /\ HasDelimiter(file[j])
              /\ KeyOf(file[j]) \in MappingKeys
              /\ \E i \in 1..(j - 1) : KeyOf(file[i]) = KeyOf(file[j])
              /\ \A k \in (j + 1)..Len(file) : KeyOf(file[k]) # KeyOf(file[j]) )
            => m[FieldOfKey(KeyOf(file[j]))] = StoredValue(file[j])

\* C8: the five-line excerpt extracted into an empty snapshot reports exactly
\* MemTotal, MemFree, Active = "200 kB", ActiveAnon = "50 kB" and Slab, every
\* other field absent.
C8_EndToEnd ==
    (outcome = "returned" /\ mEntry = EmptyMemInfo /\ file = ProcMeminfoSample)
    => m = [EmptyMemInfo EXCEPT !["MemTotal"] = Val3965536kB,
                                !["MemFree"] = Val100000kB,
                                !["Active"] = Val200kB,
                                !["ActiveAnon"] = Val50kB,
                                !["Slab"] = Val30000kB]

\* C9: the value stored for a recognized line is the trimmed whole remainder
\* of the line after its FIRST ":" (checked on the last line of the source,
\* whose field no later line overwrites).
C9_SplitOnFirstDelimiter ==
    (outcome = "returned" /\ file # <<>> /\ FirstMatch(file[Len(file)]) # 0) =>
        m[Chain[FirstMatch(file[Len(file)])].field]
            = Trim(AfterFirstDelimiter(file[Len(file)]))

\* C10: the snapshot a returned call leaves depends only on the content read
\* by that call: it equals the one a single call on a fresh empty snapshot
\* over the same content produces.
C10_DependsOnlyOnContent ==
    outcome = "returned" => m = FormatLines(EmptyMemInfo, file, 1).m

====
